---- MODULE Spec2Model ----
(***************************************************************************)
(* Model of the RISC-V five-stage pipeline simulator: the functional units *)
(* of units/include/Basics.h (PC, IMEM, RegisterFile, WE_GEN, DMEM), the   *)
(* Decode stage's interface of stages/Decode.h, and the pipeline engine    *)
(* that drives them.                                                       *)
(*                                                                         *)
(* A 32-bit datapath value (std::bitset<32>, uint32_t) is a record         *)
(* [hi, lo] of two 16-bit halves, value = hi * 2^16 + lo, so that every    *)
(* operation keeps its 32-bit width and wraps modulo 2^32.                 *)
(***************************************************************************)
EXTENDS Integers, Sequences, FiniteSets, TLC

VARIABLES
    pc_,      \* PC::pc_, the stored program counter
    imem_,    \* IMEM::imem_, the instruction words
    regs_,    \* RegisterFile::regs_
    dmem_,    \* DMEM::dmem_, std::map<uint32_t, std::bitset<32>>
    hist,     \* history: the stores issued to DMEM so far, oldest first
    out,      \* the value returned by the last DMEM::Load
    nops,     \* number of unit operations applied so far
    if_id,    \* IF/ID latch: Decode's inputs instr_, pc_ and their validity
    id_ex,    \* ID/EX latch: Decode's outputs instr_, pc_, D1, D2, v_de_
    ex_mem,   \* EX/MEM latch: ALU result, store data, WE_GEN's gated enables
    mem_wb,   \* MEM/WB latch: write-back value and gated enables
    state,    \* the PipelineState the last tick ended with
    haltedBy, \* why the driver stopped: "none", "ebreak", "drained", "terminate"
    cycle,    \* Stage::cycle
    effects   \* history: the register-file writes and DMEM stores performed

pipevars == <<if_id, id_ex, ex_mem, mem_wb, state, haltedBy, cycle, effects>>

vars == <<pc_, imem_, regs_, dmem_, hist, out, nops,
          if_id, id_ex, ex_mem, mem_wb, state, haltedBy, cycle, effects>>

(***************************************************************************)
(* 32-bit words                                                            *)
(***************************************************************************)
W16 == 65536

W(h, l) == [hi |-> h, lo |-> l]

Zero == W(0, 0)

One == W(0, 1)

AllOnes == W(65535, 65535)

\* std::bitset<N>{lhs.to_ulong() + rhs.to_ulong()}: the sum truncated to 32 bits
Add32(a, b) ==
    LET s == a.lo + b.lo
    IN  W((a.hi + b.hi + (s \div W16)) % W16, s % W16)

Not32(a) == W(65535 - a.hi, 65535 - a.lo)

\* two's complement negation, -x as a uint32_t
Neg32(a) == Add32(Not32(a), One)

\* x * 4 as a uint32_t
Mul4(a) ==
    LET l == a.lo * 4
    IN  W((a.hi * 4 + (l \div W16)) % W16, l % W16)

\* x / 4 as a uint32_t
UDiv4(a) == W(a.hi \div 4, (a.lo \div 4) + (a.hi % 4) * 16384)

SDiv4Unsigned(a) == UDiv4(a)

\* static_cast<int32_t>(x) / 4, converted back to uint32_t: C++ signed
\* division truncates toward zero
SDiv4(a) == IF a.hi >= 32768 THEN Neg32(UDiv4(Neg32(a))) ELSE UDiv4(a)

\* sub_range<7, 0>(b) and sub_range<15, 0>(b)
Low8(a) == a.lo % 256

Low16(a) == a.lo

\* SignBit(byte), SignBit(half_word)
SignBit8(b) == b \div 128

SignBit16(h) == h \div 32768

\* concat<32>(std::bitset<24>{}, byte), concat<32>(std::bitset<16>{}, half)
ZExt8(b) == W(0, b)

ZExt16(h) == W(0, h)

\* concat<32>(SignExt<24>(SignBit(byte)), byte)
SExt8(b) == IF SignBit8(b) = 1 THEN W(65535, 65280 + b) ELSE W(0, b)

\* concat<32>(SignExt<16>(SignBit(half_word)), half_word)
SExt16(h) == IF SignBit16(h) = 1 THEN W(65535, h) ELSE W(0, h)

(***************************************************************************)
(* PC                                                                      *)
(***************************************************************************)
val(pc) == pc

realValUnscaled(pc) == pc

realVal(pc) == Mul4(pc)

\* PC::PC(std::bitset<32> pc): pc_(pc.to_ulong())
PCFromBits(pc) == pc

\* PC::operator+(uint32_t) and PC::operator+=(uint32_t): assert(offset % 4 == 0)
PCPlus(pc, offset) == Add32(pc, SDiv4(offset))

PCPlusBitsNoDiv(pc, offset) == Add32(pc, offset)

\* PC::operator+=(std::bitset<32>): no assertion on the offset
PCPlusBits(pc, offset) == Add32(pc, SDiv4(offset))

\* PC::operator+(PC rhs)
PCPlusPC(pc, rhs) == Add32(pc, SDiv4(val(rhs)))

\* PC::operator=(uint32_t): assert(pc % 4 == 0); pc_ = pc
PCAssign(pc) == pc

(***************************************************************************)
(* IMEM                                                                    *)
(***************************************************************************)
\* pc.val() as an index into imem_, or -1 when it is beyond any vector size
\* the model builds
Index(pc) == IF val(pc).hi = 0 THEN val(pc).lo ELSE -1

isEndOfIMEM(imem, pc) == Index(pc) = Len(imem)

InRange(imem, pc) == Index(pc) >= 0 /\ Index(pc) < Len(imem)

\* imem_.at(pc.val()) throws std::out_of_range when the index is not in range;
\* getInstr is noexcept, so the throw ends the process through std::terminate
AtThrows(imem, pc) == ~InRange(imem, pc)

\* IMEM::getInstr where at() does not throw
getInstr(imem, pc) == imem[Index(pc) + 1]

(***************************************************************************)
(* RegisterFile                                                            *)
(***************************************************************************)
NumRegs == 32

RegWrite(regs, A3, D3) == [regs EXCEPT ![A3] = D3]

RegRead(regs, A) == regs[A]

(***************************************************************************)
(* DMEM                                                                    *)
(***************************************************************************)
Widths == {"BYTE", "BYTE_U", "HALF", "HALF_U", "WORD"}

\* dmem_[idx] = value: inserts the key or overwrites its word
MapPut(m, k, v) == [x \in (DOMAIN m) \cup {k} |-> IF x = k THEN v ELSE m[x]]

\* dmem_[idx] as an rvalue: a missing key reads as a value-initialised word
MapGet(m, k) == IF k \in DOMAIN m THEN m[k] ELSE Zero

StoredWord(WD, w_type) ==
    CASE w_type \in {"BYTE", "BYTE_U"} -> ZExt8(Low8(WD))
      [] w_type \in {"HALF", "HALF_U"} -> ZExt16(Low16(WD))
      [] OTHER -> WD

StoreTruncAll(dmem, WD, A, w_type) == MapPut(dmem, A, ZExt8(Low8(WD)))

Store(dmem, WD, A, w_type) == MapPut(dmem, A, StoredWord(WD, w_type))

Load(dmem, A, w_type) ==
    CASE w_type = "BYTE" -> SExt8(Low8(MapGet(dmem, A)))
      [] w_type = "BYTE_U" -> ZExt8(Low8(MapGet(dmem, A)))
      [] w_type = "HALF" -> SExt16(Low16(MapGet(dmem, A)))
      [] w_type = "HALF_U" -> ZExt16(Low16(MapGet(dmem, A)))
      [] OTHER -> MapGet(dmem, A)

LoadTouchReset(dmem, A) == MapPut(dmem, A, Zero)

\* the map after Load: operator[] default-inserts a missing key
LoadTouch(dmem, A) == MapPut(dmem, A, MapGet(dmem, A))

(***************************************************************************)
(* Bit strings: sub_range, concat, SignBit, SignExt                        *)
(***************************************************************************)
Pow2(n) == 2 ^ n

\* b[i], bit i of a 32-bit word (0 = least significant)
Bit(b, i) == IF i >= 16 THEN (b.hi \div Pow2(i - 16)) % 2 ELSE (b.lo \div Pow2(i)) % 2

\* b.to_string(): the 32 bits, most significant first
to_string(b) == [i \in 1..32 |-> Bit(b, 32 - i)]

RECURSIVE BitsVal(_)
\* the number a string of at most 16 bits spells, most significant first
BitsVal(s) == IF s = <<>> THEN 0 ELSE 2 * BitsVal(SubSeq(s, 1, Len(s) - 1)) + s[Len(s)]

\* std::bitset<32>{string}
FromString(s) == W(BitsVal(SubSeq(s, 1, 16)), BitsVal(SubSeq(s, 17, 32)))

\* sub_range<L, R>(b): substr(N - L - 1, L - R + 1) of the string, N = Len(s)
sub_range(L, R, s) == SubSeq(s, Len(s) - L, Len(s) - R)

RECURSIVE Accumulate(_)
Accumulate(args) == IF args = <<>> THEN <<>> ELSE Head(args) \o Accumulate(Tail(args))

\* concat<32>(args...): the strings joined, which must come to 32 bits
concat(args) == FromString(Accumulate(args))

SignBit(imm) == <<Bit(imm, 31)>>

SignExt(N, SE) == [i \in 1..N |-> IF SE[1] = 1 THEN 1 ELSE 0]

\* std::bitset<N>{0}
ZeroBits(N) == [i \in 1..N |-> 0]

(***************************************************************************)
(* IMM                                                                     *)
(***************************************************************************)
Formats == {"R", "I", "S", "B", "U", "J"}

\* the argument lists IMM::IMM hands to concat<32>, per format
IMMArgs(ins_bits, format) ==
    LET s == to_string(ins_bits)
    IN  CASE format = "I" -> <<SignExt(21, SignBit(ins_bits)), sub_range(30, 20, s)>>
          [] format = "S" -> <<SignExt(21, SignBit(ins_bits)), sub_range(30, 25, s),
                               sub_range(11, 7, s)>>
          [] format = "B" -> <<SignExt(20, SignBit(ins_bits)), sub_range(7, 7, s),
                               sub_range(30, 25, s), sub_range(11, 8, s), ZeroBits(1)>>
          [] format = "U" -> <<sub_range(31, 12, s), ZeroBits(12)>>
          [] format = "J" -> <<SignExt(12, SignBit(ins_bits)), sub_range(19, 12, s),
                               sub_range(20, 20, s), sub_range(30, 21, s), ZeroBits(1)>>
          [] OTHER -> <<ZeroBits(32)>>

\* IMM::IMM(instr, is_jalr): the type_ and imm_ it leaves
IMM(ins_bits, format, is_jalr) ==
    CASE format = "I" ->
             [type_ |-> IF is_jalr THEN "Imm_None" ELSE "Imm_I",
              imm_ |-> IF is_jalr THEN W(0, 4) ELSE concat(IMMArgs(ins_bits, "I"))]
      [] format = "S" -> [type_ |-> "Imm_S", imm_ |-> concat(IMMArgs(ins_bits, "S"))]
      [] format = "B" -> [type_ |-> "Imm_B", imm_ |-> concat(IMMArgs(ins_bits, "B"))]
      [] format = "U" -> [type_ |-> "Imm_U", imm_ |-> concat(IMMArgs(ins_bits, "U"))]
      [] format = "J" -> [type_ |-> "Imm_J", imm_ |-> concat(IMMArgs(ins_bits, "J"))]
      [] OTHER -> [type_ |-> "Imm_None", imm_ |-> Zero]

(***************************************************************************)
(* Instructions and control                                                *)
(***************************************************************************)
\* the decoded instruction record: operation, rd, rs1, rs2, immediate
Instr(op, rd, rs1, rs2, imm) == [op |-> op, rd |-> rd, rs1 |-> rs1, rs2 |-> rs2, imm |-> imm]

\* a default-constructed RISCVInstr: no operation
NoInstr == Instr("NONE", 0, 0, 0, Zero)

NOP == Instr("ADDI", 0, 0, 0, Zero)

\* ControlUnit::Flags of an instruction
CUFlags(instr) ==
    [mem_we |-> instr.op = "SW",
     wb_we |-> instr.op \in {"ADDI", "ADD", "LW", "JAL"},
     ebreak |-> instr.op = "EBREAK",
     is_load |-> instr.op = "LW",
     is_branch |-> instr.op \in {"BEQ", "BNE"},
     is_jump |-> instr.op = "JAL",
     cmp_op |-> IF instr.op = "BNE" THEN "NE" ELSE "EQ",
     alu_src_b |-> IF instr.op = "ADD" THEN "rs2" ELSE "imm",
     width |-> "WORD"]

Sub32NoBorrow(a, b) == W((a.hi - b.hi) % W16, (a.lo - b.lo) % W16)

\* std::bitset<32>{lhs.to_ulong() - rhs.to_ulong()}: the unsigned difference
\* wraps and the constructor keeps its low 32 bits
Sub32(a, b) ==
    W((a.hi - b.hi - (IF a.lo < b.lo THEN 1 ELSE 0)) % W16, (a.lo - b.lo) % W16)

RECURSIVE BitwiseN(_, _, _, _)
\* the n low bits of x and y combined bit by bit
BitwiseN(x, y, op, n) ==
    IF n = 0 THEN 0
    ELSE 2 * BitwiseN(x \div 2, y \div 2, op, n - 1)
         + (CASE op = "XOR" -> (x + y) % 2
              [] op = "OR" -> IF (x % 2) + (y % 2) > 0 THEN 1 ELSE 0
              [] OTHER -> (x % 2) * (y % 2))

\* lhs ^ rhs, lhs | rhs, lhs & rhs
Bitwise(a, b, op) == W(BitwiseN(a.hi, b.hi, op, 16), BitwiseN(a.lo, b.lo, op, 16))

\* rhs.to_ulong() as a shift count: the whole value, of which only "32 or
\* more" and the counts below 32 differ in effect
Count(rhs) == IF rhs.hi > 0 \/ rhs.lo >= 32 THEN 32 ELSE rhs.lo

\* lhs << n on std::bitset<32>: zero once n reaches 32
Shl32(a, n) ==
    IF n >= 32 THEN Zero
    ELSE IF n >= 16 THEN W((a.lo % Pow2(32 - n)) * Pow2(n - 16), 0)
    ELSE W((a.hi % Pow2(16 - n)) * Pow2(n) + (a.lo \div Pow2(16 - n)),
           (a.lo % Pow2(16 - n)) * Pow2(n))

\* lhs >> n on std::bitset<32>: zero once n reaches 32
Shr32(a, n) ==
    IF n >= 32 THEN Zero
    ELSE IF n >= 16 THEN W(0, a.hi \div Pow2(n - 16))
    ELSE W(a.hi \div Pow2(n), (a.lo \div Pow2(n)) + (a.hi % Pow2(n)) * Pow2(16 - n))

\* static_cast<int32_t>(lhs.to_ulong()) >> n for n < 32, converted back to 32
\* bits: an arithmetic shift; n = 32 stands for the sign fill
Sra32(a, n) == IF a.hi >= 32768 THEN Not32(Shr32(Not32(a), n)) ELSE Shr32(a, n)

\* lhs.to_ulong() < rhs.to_ulong()
ULess(a, b) == a.hi < b.hi \/ (a.hi = b.hi /\ a.lo < b.lo)

SLessAsUnsigned(a, b) == ULess(a, b)

\* static_cast<int32_t>(lhs.to_ulong()) < static_cast<int32_t>(rhs.to_ulong())
SLess(a, b) ==
    IF (a.hi >= 32768) # (b.hi >= 32768) THEN a.hi >= 32768 ELSE ULess(a, b)

ALUOps == {"ADD", "SUB", "XOR", "OR", "AND", "SLL", "SRL", "SRA", "SLT", "SLTU"}

\* ALU::calc; for SRA with a count of 32 or more see ALUOutcomes
ALUcalc(lhs, rhs, alu_op) ==
    CASE alu_op = "ADD" -> Add32(lhs, rhs)
      [] alu_op = "SUB" -> Sub32(lhs, rhs)
      [] alu_op \in {"XOR", "OR", "AND"} -> Bitwise(lhs, rhs, alu_op)
      [] alu_op = "SLL" -> Shl32(lhs, Count(rhs))
      [] alu_op = "SRL" -> Shr32(lhs, Count(rhs))
      [] alu_op = "SRA" -> Sra32(lhs, Count(rhs))
      [] alu_op = "SLT" -> IF SLess(lhs, rhs) THEN One ELSE Zero
      [] alu_op = "SLTU" -> IF ULess(lhs, rhs) THEN One ELSE Zero
      [] OTHER -> Zero

\* what ALU::calc can return: shifting an int32_t by 32 or more is undefined,
\* and a build either uses the low five bits of the count (the machine's shift
\* instruction) or fills with the sign (the shift carried out in full)
ALUOutcomes(lhs, rhs, alu_op) ==
    IF alu_op = "SRA" /\ Count(rhs) = 32
    THEN {Sra32(lhs, rhs.lo % 32), Sra32(lhs, 32)}
    ELSE {ALUcalc(lhs, rhs, alu_op)}

CMPOps == {"EQ", "NE", "LT", "GE", "LTU", "GEU"}

\* CMP::calc
CMPcalc(lhs, rhs, cmp_op) ==
    CASE cmp_op = "EQ" -> lhs = rhs
      [] cmp_op = "NE" -> lhs # rhs
      [] cmp_op = "LT" -> SLess(lhs, rhs)
      [] cmp_op = "GE" -> ~SLess(lhs, rhs)
      [] cmp_op = "LTU" -> ULess(lhs, rhs)
      [] cmp_op = "GEU" -> ~ULess(lhs, rhs)
      [] OTHER -> FALSE

WE_GEN_NoGate(mem_we, wb_we, ebreak, v_ex) ==
    [mem_we_ |-> mem_we, wb_we_ |-> wb_we, ebreak_ |-> ebreak]

WE_GEN_BreakNoGate(mem_we, wb_we, ebreak, v_ex) ==
    [mem_we_ |-> mem_we /\ v_ex, wb_we_ |-> wb_we /\ v_ex, ebreak_ |-> ebreak]

\* WE_GEN(mem_we, wb_we, ebreak, v_ex): the enables gated on validity
WE_GEN(mem_we, wb_we, ebreak, v_ex) ==
    [mem_we_ |-> mem_we /\ v_ex, wb_we_ |-> wb_we /\ v_ex, ebreak_ |-> ebreak /\ v_ex]

\* a default-constructed WE_GEN
WE_GEN_Default == [mem_we_ |-> FALSE, wb_we_ |-> FALSE, ebreak_ |-> FALSE]

(***************************************************************************)
(* Latches                                                                 *)
(***************************************************************************)
IfIdInit == [instr |-> NoInstr, pc |-> Zero, valid |-> FALSE]

\* Decode's outputs after construction: v_de_{true}, a default instr_, pc_{0}
IdExInit == [instr |-> NoInstr, pc |-> Zero, D1 |-> Zero, D2 |-> Zero, valid |-> TRUE]

ExMemInit == [instr |-> NoInstr, pc |-> Zero, alu |-> Zero, wd |-> Zero,
              we |-> WE_GEN_Default, valid |-> FALSE]

MemWbInit == [instr |-> NoInstr, pc |-> Zero, wb_d |-> Zero,
              we |-> WE_GEN_Default, valid |-> FALSE]

\* the pipeline part of the state while only a unit is exercised
UnitIdle ==
    /\ if_id = IfIdInit /\ id_ex = IdExInit /\ ex_mem = ExMemInit /\ mem_wb = MemWbInit
    /\ state = "OK" /\ haltedBy = "none" /\ cycle = 0 /\ effects = <<>>

(***************************************************************************)
(* Writeback: reads MEM/WB, writes the register file                       *)
(***************************************************************************)
WBWrites == mem_wb.we.wb_we_ /\ mem_wb.instr.rd # 0

RegsAfterWB ==
    IF WBWrites THEN RegWrite(regs_, mem_wb.instr.rd, mem_wb.wb_d) ELSE regs_

WBBreak == mem_wb.we.ebreak_

WBEffect ==
    IF WBWrites
    THEN <<[k |-> "reg", pc |-> Index(mem_wb.pc), a |-> mem_wb.instr.rd, v |-> mem_wb.wb_d]>>
    ELSE <<>>

(***************************************************************************)
(* Memory: reads EX/MEM, loads from or stores to DMEM, publishes MEM/WB    *)
(***************************************************************************)
MemStores == ex_mem.we.mem_we_

MemLoads == CUFlags(ex_mem.instr).is_load /\ ex_mem.we.wb_we_

DmemAfterMEM ==
    IF MemStores THEN Store(dmem_, ex_mem.wd, ex_mem.alu, CUFlags(ex_mem.instr).width)
    ELSE IF MemLoads THEN LoadTouch(dmem_, ex_mem.alu)
    ELSE dmem_

MemWbNext ==
    [instr |-> ex_mem.instr, pc |-> ex_mem.pc,
     wb_d |-> IF MemLoads THEN Load(dmem_, ex_mem.alu, CUFlags(ex_mem.instr).width)
              ELSE ex_mem.alu,
     we |-> ex_mem.we, valid |-> ex_mem.valid]

MEMEffect ==
    IF MemStores
    THEN <<[k |-> "mem", pc |-> Index(ex_mem.pc), a |-> ex_mem.alu,
            v |-> StoredWord(ex_mem.wd, CUFlags(ex_mem.instr).width)]>>
    ELSE <<>>

(***************************************************************************)
(* Execute: reads ID/EX, forwards from EX/MEM and MEM/WB, resolves branches *)
(***************************************************************************)
FwdNone(rs, D) == D

\* the value of source register rs seen by EX: the newest in-flight result
Fwd(rs, D) ==
    IF rs # 0 /\ ex_mem.we.wb_we_ /\ ex_mem.instr.rd = rs /\ ~CUFlags(ex_mem.instr).is_load
    THEN ex_mem.alu
    ELSE IF rs # 0 /\ mem_wb.we.wb_we_ /\ mem_wb.instr.rd = rs
         THEN mem_wb.wb_d
         ELSE D

ExOpA == Fwd(id_ex.instr.rs1, id_ex.D1)

ExOpB == Fwd(id_ex.instr.rs2, id_ex.D2)

ExALU ==
    IF CUFlags(id_ex.instr).is_jump
    THEN ALUcalc(realVal(id_ex.pc), W(0, 4), "ADD")
    ELSE IF CUFlags(id_ex.instr).alu_src_b = "rs2"
         THEN ALUcalc(ExOpA, ExOpB, "ADD")
         ELSE ALUcalc(ExOpA, id_ex.instr.imm, "ADD")

\* PC_R: EX has resolved a taken branch or a jump
PC_R ==
    /\ id_ex.valid
    /\ \/ CUFlags(id_ex.instr).is_jump
       \/ /\ CUFlags(id_ex.instr).is_branch
          /\ CMPcalc(ExOpA, ExOpB, CUFlags(id_ex.instr).cmp_op)

ExTarget == PCPlusBits(id_ex.pc, id_ex.instr.imm)

ExMemNext ==
    [instr |-> id_ex.instr, pc |-> id_ex.pc, alu |-> ExALU, wd |-> ExOpB,
     we |-> WE_GEN(CUFlags(id_ex.instr).mem_we, CUFlags(id_ex.instr).wb_we,
                   CUFlags(id_ex.instr).ebreak, id_ex.valid),
     valid |-> id_ex.valid]

(***************************************************************************)
(* Decode: reads IF/ID, reads the register file, publishes ID/EX           *)
(***************************************************************************)
StallNever == FALSE

\* load-use hazard: the load in EX produces a source of the instruction in ID
Stall ==
    /\ if_id.valid /\ id_ex.valid
    /\ CUFlags(id_ex.instr).is_load
    /\ id_ex.instr.rd # 0
    /\ id_ex.instr.rd \in {if_id.instr.rs1, if_id.instr.rs2}

\* Decode::V_DE: the decoded instruction is valid unless flushed or stalled
V_DE == if_id.valid /\ ~PC_R /\ ~Stall

IdExNext ==
    [instr |-> if_id.instr, pc |-> if_id.pc,
     D1 |-> RegRead(RegsAfterWB, if_id.instr.rs1),
     D2 |-> RegRead(RegsAfterWB, if_id.instr.rs2),
     valid |-> V_DE]

(***************************************************************************)
(* Fetch: reads PC and IMEM, publishes IF/ID                               *)
(***************************************************************************)
\* the fetch that std::terminate ends: neither the end of IMEM nor in range
FetchFaults == ~Stall /\ ~isEndOfIMEM(imem_, pc_) /\ AtThrows(imem_, pc_)

IfIdNext ==
    IF Stall THEN if_id
    ELSE IF isEndOfIMEM(imem_, pc_) THEN [instr |-> NoInstr, pc |-> pc_, valid |-> FALSE]
    ELSE [instr |-> getInstr(imem_, pc_), pc |-> pc_, valid |-> ~PC_R]

PCNextVal ==
    IF PC_R THEN ExTarget
    ELSE IF Stall \/ isEndOfIMEM(imem_, pc_) THEN pc_
    ELSE PCPlus(pc_, W(0, 4))

(***************************************************************************)
(* Simulator driver: one tick runs WB, MEM, EX, ID, IF                     *)
(***************************************************************************)
MaxProg == 4

Alphabet ==
    {Instr("ADDI", 1, 0, 0, W(0, 5)),
     Instr("ADDI", 1, 1, 0, W(65535, 65533)),
     Instr("ADDI", 0, 1, 0, W(0, 7)),
     Instr("ADD", 2, 2, 1, Zero),
     Instr("SW", 0, 0, 1, Zero),
     Instr("LW", 2, 0, 0, Zero),
     Instr("BEQ", 0, 1, 0, W(0, 8)),
     Instr("JAL", 1, 0, 0, W(0, 8)),
     Instr("EBREAK", 0, 0, 0, Zero),
     NOP}

Programs == UNION {[1..n -> Alphabet] : n \in 0..MaxProg}

Drained(pc, l1, l2, l3, l4) ==
    isEndOfIMEM(imem_, pc) /\ ~l1.valid /\ ~l2.valid /\ ~l3.valid /\ ~l4.valid

PipeInit ==
    /\ imem_ \in Programs
    /\ pc_ = Zero
    /\ regs_ = [r \in 0..(NumRegs - 1) |-> Zero]
    /\ dmem_ = <<>> /\ hist = <<>> /\ out = Zero /\ nops = 0
    /\ if_id = IfIdInit /\ id_ex = IdExInit /\ ex_mem = ExMemInit /\ mem_wb = MemWbInit
    /\ state = "OK" /\ haltedBy = "none" /\ cycle = 0 /\ effects = <<>>

\* WB returns BREAK: the driver stops before the other stages run
TickBreak ==
    /\ haltedBy = "none"
    /\ WBBreak
    /\ regs_' = RegsAfterWB
    /\ effects' = effects \o WBEffect
    /\ state' = "BREAK" /\ haltedBy' = "ebreak"
    /\ cycle' = cycle + 1
    /\ UNCHANGED <<pc_, imem_, dmem_, hist, out, nops, if_id, id_ex, ex_mem, mem_wb>>

\* IF fetches out of range: std::terminate, after WB and MEM have run
TickTerminate ==
    /\ haltedBy = "none"
    /\ ~WBBreak
    /\ FetchFaults
    /\ regs_' = RegsAfterWB
    /\ dmem_' = DmemAfterMEM
    /\ effects' = effects \o WBEffect \o MEMEffect
    /\ state' = "ERR" /\ haltedBy' = "terminate"
    /\ cycle' = cycle + 1
    /\ UNCHANGED <<pc_, imem_, hist, out, nops, if_id, id_ex, ex_mem, mem_wb>>

Tick ==
    /\ haltedBy = "none"
    /\ ~WBBreak
    /\ ~FetchFaults
    /\ regs_' = RegsAfterWB
    /\ dmem_' = DmemAfterMEM
    /\ effects' = effects \o WBEffect \o MEMEffect
    /\ mem_wb' = MemWbNext
    /\ ex_mem' = ExMemNext
    /\ id_ex' = IdExNext
    /\ if_id' = IfIdNext
    /\ pc_' = PCNextVal
    /\ cycle' = cycle + 1
    /\ state' = IF Stall THEN "STALL"
                ELSE IF Drained(PCNextVal, IfIdNext, IdExNext, ExMemNext, MemWbNext)
                     THEN "BREAK" ELSE "OK"
    /\ haltedBy' = IF Drained(PCNextVal, IfIdNext, IdExNext, ExMemNext, MemWbNext)
                   THEN "drained" ELSE "none"
    /\ UNCHANGED <<imem_, hist, out, nops>>

PipeNext ==
    \/ Tick
    \/ TickBreak
    \/ TickTerminate

Spec == PipeInit /\ [][PipeNext]_vars

\* the driver's loop runs a cycle whenever the simulation has not ended
SpecLive == PipeInit /\ [][PipeNext]_vars /\ WF_vars(PipeNext)

(***************************************************************************)
(* Sequential reference: the program executed one instruction at a time,   *)
(* in program order, with byte offsets as the ISA defines them             *)
(***************************************************************************)
\* a small two's-complement word as an integer
SInt(w) == IF w.hi >= 32768 THEN 0 - Neg32(w).lo ELSE w.lo

RefWrite(regs, rd, v) == IF rd = 0 THEN regs ELSE [regs EXCEPT ![rd] = v]

RefRegEffect(pc, rd, v) ==
    IF rd = 0 THEN <<>> ELSE <<[k |-> "reg", pc |-> pc, a |-> rd, v |-> v]>>

RECURSIVE RefRun(_, _, _, _, _, _)
RefRun(prog, pc, regs, mem, effs, fuel) ==
    IF fuel = 0 THEN [regs |-> regs, mem |-> mem, effs |-> effs, pc |-> pc, end |-> "fuel"]
    ELSE IF pc = Len(prog)
    THEN [regs |-> regs, mem |-> mem, effs |-> effs, pc |-> pc, end |-> "drained"]
    ELSE IF pc < 0 \/ pc > Len(prog)
    THEN [regs |-> regs, mem |-> mem, effs |-> effs, pc |-> pc, end |-> "terminate"]
    ELSE
      LET i == prog[pc + 1]
          a == regs[i.rs1]
          b == regs[i.rs2]
          sum == Add32(a, i.imm)
          jump == pc + (SInt(i.imm) \div 4)
          link == W(0, 4 * pc + 4)
      IN  CASE i.op = "EBREAK" ->
                 [regs |-> regs, mem |-> mem, effs |-> effs, pc |-> pc, end |-> "ebreak"]
            [] i.op = "ADDI" ->
                 RefRun(prog, pc + 1, RefWrite(regs, i.rd, sum), mem,
                        effs \o RefRegEffect(pc, i.rd, sum), fuel - 1)
            [] i.op = "ADD" ->
                 RefRun(prog, pc + 1, RefWrite(regs, i.rd, Add32(a, b)), mem,
                        effs \o RefRegEffect(pc, i.rd, Add32(a, b)), fuel - 1)
            [] i.op = "LW" ->
                 RefRun(prog, pc + 1, RefWrite(regs, i.rd, MapGet(mem, sum)),
                        MapPut(mem, sum, MapGet(mem, sum)),
                        effs \o RefRegEffect(pc, i.rd, MapGet(mem, sum)), fuel - 1)
            [] i.op = "SW" ->
                 RefRun(prog, pc + 1, regs, MapPut(mem, sum, b),
                        effs \o <<[k |-> "mem", pc |-> pc, a |-> sum, v |-> b]>>, fuel - 1)
            [] i.op = "BEQ" ->
                 RefRun(prog, IF a = b THEN jump ELSE pc + 1, regs, mem, effs, fuel - 1)
            [] i.op = "BNE" ->
                 RefRun(prog, IF a # b THEN jump ELSE pc + 1, regs, mem, effs, fuel - 1)
            [] i.op = "JAL" ->
                 RefRun(prog, jump, RefWrite(regs, i.rd, link), mem,
                        effs \o RefRegEffect(pc, i.rd, link), fuel - 1)
            [] OTHER ->
                 RefRun(prog, pc + 1, regs, mem, effs, fuel - 1)

Ref(prog) ==
    RefRun(prog, 0, [r \in 0..(NumRegs - 1) |-> Zero], <<>>, <<>>, Len(prog) + 1)

IsPrefix(s, t) == Len(s) <= Len(t) /\ \A i \in 1..Len(s) : s[i] = t[i]

(***************************************************************************)
(* Unit operations: the register file                                      *)
(***************************************************************************)
RFIdx == {0, 1, 2, 31}

RFData == {Zero, One, W(32768, 0), AllOnes}

RFInit ==
    /\ UnitIdle
    /\ regs_ = [r \in 0..(NumRegs - 1) |-> Zero]
    /\ pc_ = Zero /\ imem_ = <<>> /\ dmem_ = <<>> /\ hist = <<>> /\ out = Zero /\ nops = 0

RFWrite(A3, D3) ==
    /\ regs_' = RegWrite(regs_, A3, D3)
    /\ UNCHANGED <<pc_, imem_, dmem_, hist, out, nops>>
    /\ UNCHANGED pipevars

RFRead(A) ==
    /\ out' = RegRead(regs_, A)
    /\ UNCHANGED <<pc_, imem_, regs_, dmem_, hist, nops>>
    /\ UNCHANGED pipevars

RFNext ==
    \/ \E A3 \in RFIdx, D3 \in RFData : RFWrite(A3, D3)
    \/ \E A \in RFIdx : RFRead(A)

SpecRF == RFInit /\ [][RFNext]_vars

(***************************************************************************)
(* Unit operations: PC and IMEM                                            *)
(***************************************************************************)
MaxPCOps == 3

MaxImemProbe == 2

PCVals == {Zero, One, W(16383, 65535), W(16384, 0), AllOnes}

PCOffsets == {W(0, 4), W(0, 8), W(65535, 65532), W(32768, 0), W(32767, 65532),
              W(0, 2), W(65535, 65534)}

Aligned4(w) == w.lo % 4 = 0

PCInit ==
    /\ UnitIdle
    /\ pc_ = Zero
    /\ imem_ \in {[i \in 1..n |-> NOP] : n \in 0..MaxImemProbe}
    /\ regs_ = [r \in 0..(NumRegs - 1) |-> Zero]
    /\ dmem_ = <<>> /\ hist = <<>> /\ out = Zero /\ nops = 0

\* one operation on the PC; hist keeps the operation, its argument and the PC
\* it was applied to
PCStep(p, op, arg) ==
    /\ nops < MaxPCOps
    /\ pc_' = p
    /\ nops' = nops + 1
    /\ hist' = <<[op |-> op, arg |-> arg, from |-> pc_]>>
    /\ UNCHANGED <<imem_, regs_, dmem_, out>>
    /\ UNCHANGED pipevars

\* PC{v}
PCOpConstruct == \E v \in PCVals : PCStep(v, "PC", v)

\* pc = pc + offset
PCOpPlus == \E o \in PCOffsets : Aligned4(o) /\ PCStep(PCPlus(pc_, o), "+", o)

\* pc += offset
PCOpPlusEq == \E o \in PCOffsets : Aligned4(o) /\ PCStep(PCPlus(pc_, o), "+=", o)

\* pc += std::bitset<32>{offset}
PCOpPlusEqBits == \E o \in PCOffsets : PCStep(PCPlusBits(pc_, o), "+=bits", o)

\* pc = pc + PC{rhs}
PCOpPlusPC == \E r \in PCVals \cup PCOffsets : PCStep(PCPlusPC(pc_, r), "+PC", r)

\* pc = a
PCOpAssign == \E a \in PCVals \cup PCOffsets : Aligned4(a) /\ PCStep(PCAssign(a), "=", a)

PCNext ==
    \/ PCOpConstruct
    \/ PCOpPlus
    \/ PCOpPlusEq
    \/ PCOpPlusEqBits
    \/ PCOpPlusPC
    \/ PCOpAssign

SpecPC == PCInit /\ [][PCNext]_vars

(***************************************************************************)
(* Unit operations: DMEM                                                   *)
(***************************************************************************)
MaxStores == 2

DAddrs == {Zero, One}

DVals == {W(4386, 33023), W(43981, 4660)}

DMInit ==
    /\ UnitIdle
    /\ dmem_ = <<>> /\ hist = <<>> /\ out = Zero /\ nops = 0
    /\ pc_ = Zero /\ imem_ = <<>>
    /\ regs_ = [r \in 0..(NumRegs - 1) |-> Zero]

DStore(WD, A, w) ==
    /\ Len(hist) < MaxStores
    /\ dmem_' = Store(dmem_, WD, A, w)
    /\ hist' = Append(hist, [WD |-> WD, A |-> A, w |-> w])
    /\ UNCHANGED <<pc_, imem_, regs_, out, nops>>
    /\ UNCHANGED pipevars

DLoad(A, w) ==
    /\ out' = Load(dmem_, A, w)
    /\ dmem_' = LoadTouch(dmem_, A)
    /\ UNCHANGED <<pc_, imem_, regs_, hist, nops>>
    /\ UNCHANGED pipevars

DMNext ==
    \/ \E WD \in DVals, A \in DAddrs, w \in Widths : DStore(WD, A, w)
    \/ \E A \in DAddrs, w \in Widths : DLoad(A, w)

SpecDMEM == DMInit /\ [][DMNext]_vars

(***************************************************************************)
(* Unit operations: IMM                                                    *)
(***************************************************************************)
\* instruction words: every single bit, none, all, and some encoded instructions
\* (jalr x1, 12(x11); ret; srai x0, x0, 2; 0xDEADBEEF; 0x7FFFF7FF)
IWords ==
    {W(0, Pow2(i)) : i \in 0..15} \cup {W(Pow2(i), 0) : i \in 0..15} \cup
    {Zero, AllOnes, W(197, 32999), W(0, 32871), W(16416, 20499), W(57005, 48879),
     W(32767, 63487)}

IMMInit ==
    /\ UnitIdle
    /\ hist = <<>> /\ out = Zero
    /\ pc_ = Zero /\ imem_ = <<>> /\ dmem_ = <<>> /\ nops = 0
    /\ regs_ = [r \in 0..(NumRegs - 1) |-> Zero]

\* IMM imm{instr, is_jalr}; imm.getImm()
IMMNew(ins_bits, format, is_jalr) ==
    /\ hist' = <<[ins |-> ins_bits, format |-> format, is_jalr |-> is_jalr,
                  type_ |-> IMM(ins_bits, format, is_jalr).type_]>>
    /\ out' = IMM(ins_bits, format, is_jalr).imm_
    /\ UNCHANGED <<pc_, imem_, regs_, dmem_, nops>>
    /\ UNCHANGED pipevars

\* the opcode field, bits [6:0], is JALR's (0x67)
IsJalrWord(ins_bits) == ins_bits.lo % 128 = 103

\* is_jalr is passed, or left at its default, for an I-format JALR only
IMMNext == \E ins_bits \in IWords, format \in Formats, is_jalr \in BOOLEAN :
               /\ is_jalr => (format = "I" /\ IsJalrWord(ins_bits))
               /\ IMMNew(ins_bits, format, is_jalr)

SpecIMM == IMMInit /\ [][IMMNext]_vars

(***************************************************************************)
(* Execute: the indirect jump JALR                                         *)
(***************************************************************************)
ClearBit0(w) == W(w.hi, w.lo - (w.lo % 2))

\* the jump target: (rs1 value + immediate) with bit 0 cleared, the immediate
\* being the one the generator made for the JALR
JalrTarget(r, ins_bits, is_jalr) ==
    ClearBit0(ALUcalc(r, IMM(ins_bits, "I", is_jalr).imm_, "ADD"))

\* the link value PC + 4, as a byte address
JalrLink(P) == Add32(realVal(P), W(0, 4))

\* fetch indices of the JALR
JPs == {Zero, One, W(0, 5)}

\* values of the base register
JRegs == {Zero, W(0, 5), W(0, 8), W(0, 256), W(65535, 65532)}

\* jalr x1, i(x11) for i = 0, 1, 4, 8, 12, -4
JWords == {W(5, 32999), W(21, 32999), W(69, 32999), W(133, 32999), W(197, 32999),
           W(65477, 32999)}

JInit ==
    /\ UnitIdle
    /\ hist = <<>> /\ out = Zero
    /\ pc_ = Zero /\ imem_ = <<>> /\ dmem_ = <<>> /\ nops = 0
    /\ regs_ = [r \in 0..(NumRegs - 1) |-> Zero]

\* a JALR at fetch index P with base value r leaves EX: the PC is set from the
\* target bits and the link value goes on to WB
ExJALR(P, r, ins_bits, is_jalr) ==
    /\ pc_' = PCFromBits(JalrTarget(r, ins_bits, is_jalr))
    /\ out' = JalrLink(P)
    /\ hist' = <<[P |-> P, r |-> r, ins |-> ins_bits, is_jalr |-> is_jalr]>>
    /\ UNCHANGED <<imem_, regs_, dmem_, nops>>
    /\ UNCHANGED pipevars

JNext == \E P \in JPs, r \in JRegs, ins_bits \in JWords, is_jalr \in BOOLEAN :
             ExJALR(P, r, ins_bits, is_jalr)

SpecJALR == JInit /\ [][JNext]_vars

(***************************************************************************)
(* Unit operations: ALU and CMP                                            *)
(***************************************************************************)
\* left operands: 0, 1, 5, 0x0000FFFF, 0x00010000, 0x12345678, 0x7FFFFFFF,
\* 0x80000000, 0x80000001, 0xFFFFFFFC, 0xFFFFFFFF
AVals == {Zero, One, W(0, 5), W(0, 65535), W(1, 0), W(4660, 22136), W(32767, 65535),
          W(32768, 0), W(32768, 1), W(65535, 65532), AllOnes}

\* right operands: the left operands that matter for carries and signs, and
\* shift counts below, at and above 32 (0x402 is the immediate of srai ..., 2)
BVals == {Zero, One, W(0, 5), W(0, 15), W(0, 16), W(0, 17), W(0, 31), W(0, 32),
          W(0, 33), W(0, 1026), W(1, 0), W(32767, 65535), W(32768, 0), AllOnes}

\* the operands of the one call a behaviour makes are drawn here
ALUInit ==
    /\ UnitIdle
    /\ hist \in {<<[unit |-> "none", op |-> "none", lhs |-> lhs, rhs |-> rhs]>> :
                    lhs \in AVals, rhs \in BVals}
    /\ out = Zero
    /\ pc_ = Zero /\ imem_ = <<>> /\ dmem_ = <<>> /\ nops = 0
    /\ regs_ = [r \in 0..(NumRegs - 1) |-> Zero]

\* ALU::calc(lhs, rhs, alu_op)
ALUCall(alu_op) ==
    /\ hist[1].unit = "none"
    /\ out' \in ALUOutcomes(hist[1].lhs, hist[1].rhs, alu_op)
    /\ hist' = <<[hist[1] EXCEPT !.unit = "ALU", !.op = alu_op]>>
    /\ UNCHANGED <<pc_, imem_, regs_, dmem_, nops>>
    /\ UNCHANGED pipevars

\* CMP::calc(lhs, rhs, cmp_op); the result is kept as the word 1 or 0
CMPCall(cmp_op) ==
    /\ hist[1].unit = "none"
    /\ out' = (IF CMPcalc(hist[1].lhs, hist[1].rhs, cmp_op) THEN One ELSE Zero)
    /\ hist' = <<[hist[1] EXCEPT !.unit = "CMP", !.op = cmp_op]>>
    /\ UNCHANGED <<pc_, imem_, regs_, dmem_, nops>>
    /\ UNCHANGED pipevars

ALUNext ==
    \/ \E alu_op \in ALUOps : ALUCall(alu_op)
    \/ \E cmp_op \in CMPOps : CMPCall(cmp_op)

SpecALU == ALUInit /\ [][ALUNext]_vars

(***************************************************************************)
(* Properties                                                              *)
(***************************************************************************)
\* C1: register r0 always reads as zero, whatever has been written to the
\* register file (including a non-zero write to index 0).
R0AlwaysZero == RegRead(regs_, 0) = Zero

\* C7: a fetch at any PC whose word index is at or beyond the size of IMEM is
\* reported as the end of the program.
FetchBeyondEndIsEnd ==
    (Index(pc_) < 0 \/ Index(pc_) >= Len(imem_)) => isEndOfIMEM(imem_, pc_)

\* C8: the byte address of the PC has its low two bits zero after any sequence
\* of PC operations, also when the arithmetic wraps modulo 2^32.
PCAligned == realVal(pc_).lo % 4 = 0

\* C8 witness: after several operations the word index is so large that the
\* byte address has wrapped modulo 2^32.
PCWrapped == nops >= 2 /\ pc_.hi >= 16384 /\ pc_.lo % 4 # 0

StoresAt(A) == {i \in 1..Len(hist) : hist[i].A = A}

LastStoreAt(A) == hist[CHOOSE i \in StoresAt(A) : \A j \in StoresAt(A) : j <= i]

ByteOf(v) == v.lo % 256

ExpectSigned8(v) == IF ByteOf(v) >= 128 THEN W(65535, 65280 + ByteOf(v)) ELSE W(0, ByteOf(v))

ExpectSigned16(v) == IF v.lo >= 32768 THEN W(65535, v.lo) ELSE W(0, v.lo)

\* C9: after a store of v at address A and any loads and stores to other
\* addresses, a word load at A returns v when the store was a word store, and
\* the byte (half-word) loads at A return the low 8 (16) bits of v, sign-extended
\* for LB/LH and zero-extended for LBU/LHU, when the store was at least that wide.
StoreThenLoad ==
    \A A \in DAddrs :
        StoresAt(A) # {} =>
            LET st == LastStoreAt(A)
            IN  /\ st.w = "WORD" => Load(dmem_, A, "WORD") = st.WD
                /\ st.w \in {"WORD", "HALF", "HALF_U"} =>
                       /\ Load(dmem_, A, "HALF") = ExpectSigned16(st.WD)
                       /\ Load(dmem_, A, "HALF_U") = W(0, st.WD.lo)
                /\ Load(dmem_, A, "BYTE") = ExpectSigned8(st.WD)
                /\ Load(dmem_, A, "BYTE_U") = W(0, ByteOf(st.WD))

\* C9 witness: a word store at A, then a store at another address, then a word
\* load at A that returned the stored value.
StoreThenLoadSeen ==
    /\ Len(hist) = 2
    /\ hist[1].w = "WORD" /\ hist[2].A # hist[1].A
    /\ out = hist[1].WD /\ hist[1].A \in DOMAIN dmem_

\* addresses a load is tried at: the stored-to ones and one never used
DProbe == DAddrs \cup {W(0, 2)}

\* C11: a load of any width at an address never stored to returns zero, and a
\* load (which leaves the store history alone) does not change what any load
\* at any address returns afterwards.
LoadsReadOnly ==
    /\ [](\A A \in DProbe : StoresAt(A) = {} =>
             \A w \in Widths : Load(dmem_, A, w) = Zero)
    /\ [][hist' = hist =>
             \A A \in DProbe, w \in Widths : Load(dmem_', A, w) = Load(dmem_, A, w)]_vars

\* C11 witness: a non-zero word was stored at address 0 and a load at the never
\* stored address 1 has inserted its key and returned zero.
LoadedUnstored ==
    /\ StoresAt(One) = {} /\ StoresAt(Zero) # {}
    /\ One \in DOMAIN dmem_
    /\ out = Zero

\* byte k (0 = least significant) of a word
ByteK(v, k) ==
    CASE k = 0 -> v.lo % 256
      [] k = 1 -> v.lo \div 256
      [] k = 2 -> v.hi % 256
      [] OTHER -> v.hi \div 256

\* C10: DMEM is byte-addressable and little-endian: after a word store of w at
\* A, an unsigned byte load at A+k returns byte k of w and an unsigned half-word
\* load at A+2 returns the upper half of w; a byte store of b at A after the
\* word store replaces only the low 8 bits of the word at A.
LittleEndian ==
    /\ (Len(hist) >= 1 /\ hist[Len(hist)].w = "WORD") =>
           LET st == hist[Len(hist)]
           IN  /\ \A k \in 0..3 :
                      Load(dmem_, Add32(st.A, W(0, k)), "BYTE_U") = W(0, ByteK(st.WD, k))
               /\ Load(dmem_, Add32(st.A, W(0, 2)), "HALF_U") = W(0, st.WD.hi)
    /\ (/\ Len(hist) >= 2
        /\ hist[Len(hist)].w \in {"BYTE", "BYTE_U"}
        /\ hist[Len(hist) - 1].w = "WORD"
        /\ hist[Len(hist)].A = hist[Len(hist) - 1].A) =>
           LET b == hist[Len(hist)]
               w == hist[Len(hist) - 1]
           IN  Load(dmem_, b.A, "WORD") =
                   W(w.WD.hi, (w.WD.lo - (w.WD.lo % 256)) + ByteOf(b.WD))

\* a tick in which all five stages run
TickRuns == haltedBy = "none" /\ ~WBBreak /\ ~FetchFaults

RawGated(instr, v) ==
    [mem_we_ |-> CUFlags(instr).mem_we /\ v,
     wb_we_ |-> CUFlags(instr).wb_we /\ v,
     ebreak_ |-> CUFlags(instr).ebreak /\ v]

\* C2: a bubble never commits a side effect: the gated memory write enable,
\* register write enable and EBREAK signal of an instruction whose validity bit
\* is false are all false whatever the control unit's raw enables are, and equal
\* the raw enables when the bit is true; the tick that processes a bubble in MEM
\* leaves DMEM unchanged, and the tick that processes a bubble in WB leaves the
\* register file unchanged and does not halt.
BubbleCommitsNothing ==
    /\ [](/\ ex_mem.we = RawGated(ex_mem.instr, ex_mem.valid)
          /\ mem_wb.we = RawGated(mem_wb.instr, mem_wb.valid))
    /\ [][/\ ~ex_mem.valid => dmem_' = dmem_
          /\ ~mem_wb.valid => (regs_' = regs_ /\ haltedBy' # "ebreak")]_vars

\* C2 witness: a bubble whose raw memory write enable is set has been processed
\* by MEM, and one whose raw register write enable is set is in front of WB.
BubbleWithRawEnables ==
    /\ ~mem_wb.valid /\ CUFlags(mem_wb.instr).mem_we
    /\ ~ex_mem.valid /\ CUFlags(ex_mem.instr).wb_we /\ ex_mem.instr.rd # 0

\* C3: when EX resolves a taken conditional branch or a jump, exactly the two
\* younger latches IF/ID and ID/EX are invalidated and the PC becomes the branch
\* target (the branch's own byte address plus its byte offset); when EX resolves
\* a not-taken conditional branch no latch is invalidated; and the register
\* writes and stores ever performed are those of the program executed in
\* program order, so a flushed instruction never writes and the instructions
\* after a not-taken branch commit.
ControlHazardFlush ==
    /\ [][/\ (TickRuns /\ PC_R) =>
                 /\ ~if_id'.valid /\ ~id_ex'.valid
                 /\ Index(pc_') = Index(id_ex.pc) + (SInt(id_ex.instr.imm) \div 4)
                 /\ ex_mem'.valid /\ ex_mem'.instr = id_ex.instr
                 /\ mem_wb'.valid = ex_mem.valid
          /\ (TickRuns /\ id_ex.valid /\ CUFlags(id_ex.instr).is_branch /\ ~PC_R) =>
                 /\ id_ex'.valid = if_id.valid /\ id_ex'.instr = if_id.instr
                 /\ if_id'.valid = InRange(imem_, pc_)
                 /\ ex_mem'.valid
                 /\ mem_wb'.valid = ex_mem.valid]_vars
    /\ [](/\ IsPrefix(effects, Ref(imem_).effs)
          /\ haltedBy \in {"ebreak", "drained"} => effects = Ref(imem_).effs)

\* C3 witness: a taken branch has just left EX with two instructions fetched
\* behind it, the first a store, and both latches are now invalid.
TakenBranchFlushed ==
    /\ ex_mem.valid /\ ex_mem.instr.op = "BEQ"
    /\ ~id_ex.valid /\ id_ex.instr.op = "SW"
    /\ ~if_id.valid /\ if_id.instr.op = "ADDI"
    /\ Index(pc_) = Index(ex_mem.pc) + 2

LoadUseHazard ==
    /\ if_id.valid /\ id_ex.valid
    /\ id_ex.instr.op = "LW" /\ id_ex.instr.rd # 0
    /\ id_ex.instr.rd \in {if_id.instr.rs1, if_id.instr.rs2}

\* C4: whenever the instruction in EX is a valid load whose non-zero rd is rs1
\* or rs2 of the instruction in ID, the tick leaves the PC and the IF/ID latch
\* unchanged and makes ID/EX a bubble while the load moves on to MEM; the hazard
\* is gone after that one tick, the next tick moves the dependent instruction
\* to EX, and there its source operand is the value the load read (the word at
\* the load's address, its immediate when the base register is x0).
LoadUseStall ==
    /\ [][/\ (TickRuns /\ LoadUseHazard) =>
                 /\ pc_' = pc_ /\ if_id' = if_id
                 /\ ~id_ex'.valid
                 /\ ex_mem'.valid /\ ex_mem'.instr = id_ex.instr
                 /\ state' = "STALL"
                 /\ ~LoadUseHazard'
          /\ (TickRuns /\ state = "STALL") =>
                 /\ id_ex'.valid /\ id_ex'.instr = if_id.instr
                 /\ state' # "STALL"]_vars
    /\ []((/\ id_ex.valid /\ mem_wb.valid /\ ~ex_mem.valid
           /\ mem_wb.instr.op = "LW" /\ mem_wb.instr.rd # 0
           /\ mem_wb.instr.rs1 = 0) =>
              /\ id_ex.instr.rs1 = mem_wb.instr.rd =>
                     (ExOpA = mem_wb.wb_d /\ ExOpA = MapGet(dmem_, mem_wb.instr.imm))
              /\ id_ex.instr.rs2 = mem_wb.instr.rd =>
                     (ExOpB = mem_wb.wb_d /\ ExOpB = MapGet(dmem_, mem_wb.instr.imm)))

\* C4 witness: after the stall the dependent instruction is in EX and reads the
\* non-zero value which the load, now in front of WB, got from memory while the
\* register still holds the stale zero.
LoadUseResolved ==
    /\ id_ex.valid /\ id_ex.instr.op = "ADD" /\ ~ex_mem.valid
    /\ mem_wb.valid /\ mem_wb.instr.op = "LW" /\ mem_wb.instr.rd = id_ex.instr.rs1
    /\ ExOpA = W(0, 5) /\ id_ex.D1 = Zero

StripNops(prog) == SelectSeq(prog, LAMBDA i : i # NOP)

StraightLine(prog) ==
    \A k \in 1..Len(prog) : prog[k].op \in {"ADDI", "ADD", "SW", "EBREAK"}

\* C5: for a program of register-writing non-load instructions (and stores),
\* the register file at halt is the one the program without its NOPs produces
\* when executed one instruction at a time: the same for every number of NOPs
\* between a producer and its consumer, none included.
ForwardingTransparent ==
    (haltedBy \in {"ebreak", "drained"} /\ StraightLine(imem_)) =>
        regs_ = Ref(StripNops(imem_)).regs

\* C5 witness: the consumer directly follows its producer, and a second
\* consumer follows it directly; the final value is the chained result.
BackToBackForwarded ==
    /\ haltedBy = "ebreak"
    /\ Len(imem_) = 4
    /\ imem_[1] = Instr("ADDI", 1, 0, 0, W(0, 5))
    /\ imem_[2] = Instr("ADDI", 1, 1, 0, W(65535, 65533))
    /\ imem_[3] = Instr("ADD", 2, 2, 1, Zero)
    /\ regs_[1] = W(0, 2) /\ regs_[2] = W(0, 2)

Field(w, L, R) ==
    IF R >= 16 THEN (w.hi \div Pow2(R - 16)) % Pow2(L - R + 1)
    ELSE IF L < 16 THEN (w.lo \div Pow2(R)) % Pow2(L - R + 1)
    ELSE (w.lo \div Pow2(R)) + (w.hi % Pow2(L - 15)) * Pow2(16 - R)

\* a 12-bit (13-bit, 21-bit) two's-complement number as a 32-bit word
SignExtend12(v) == IF v >= 2048 THEN W(65535, 61440 + v) ELSE W(0, v)

SignExtend13(v) == IF v >= 4096 THEN W(65535, 57344 + v) ELSE W(0, v)

SignExtend21(v) ==
    IF v >= 1048576 THEN W(65504 + (v \div W16), v % W16) ELSE W(v \div W16, v % W16)

\* the immediate of a word in each format, by the ISA's bit layout
ExpectImm(w, format) ==
    CASE format = "I" -> SignExtend12(Field(w, 31, 20))
      [] format = "S" -> SignExtend12(Field(w, 31, 25) * 32 + Field(w, 11, 7))
      [] format = "B" -> SignExtend13(Bit(w, 31) * 4096 + Bit(w, 7) * 2048
                                      + Field(w, 30, 25) * 32 + Field(w, 11, 8) * 2)
      [] format = "U" -> W(Field(w, 31, 16), Field(w, 15, 12) * 4096)
      [] format = "J" -> SignExtend21(Bit(w, 31) * 1048576 + Field(w, 19, 12) * 4096
                                      + Bit(w, 20) * 2048 + Field(w, 30, 21) * 2)
      [] OTHER -> Zero

\* C12: for every instruction word the generated immediate is the one the
\* ISA lays out for its format (I, S, B, U, J), and every B and J immediate
\* has bit 0 clear and bit 31 of the word in all its upper bits.
ImmBitExact ==
    \A k \in 1..Len(hist) :
        LET c == hist[k]
        IN  /\ c.format \in {"I", "S", "B", "U", "J"} => out = ExpectImm(c.ins, c.format)
            /\ c.format \in {"B", "J"} =>
                   /\ Bit(out, 0) = 0
                   /\ \A i \in (IF c.format = "B" THEN 12 ELSE 20)..31 :
                          Bit(out, i) = Bit(c.ins, 31)

\* the same with the generator constructed without is_jalr
ImmBitExactDefault ==
    (Len(hist) = 1 /\ ~hist[1].is_jalr) => ImmBitExact

\* C14: p + o and p += o with a byte offset o that is a multiple of 4, of either
\* sign, give the PC whose byte address is (byte address of p + o) mod 2^32; a
\* backward offset of -4k moves the fetch index back by exactly k and a
\* forward one of 4k moves it on by k.
ByteOffsets ==
    (/\ Len(hist) = 1
     /\ hist[1].op \in {"+", "+=", "+=bits"}
     /\ Aligned4(hist[1].arg)) =>
        LET c == hist[1]
        IN  /\ realVal(pc_) = Add32(realVal(c.from), c.arg)
            /\ c.arg.hi >= 32768 => Add32(val(pc_), UDiv4(Neg32(c.arg))) = val(c.from)
            /\ c.arg.hi < 32768 => val(pc_) = Add32(val(c.from), UDiv4(c.arg))

\* C14 witness: pc += -4 at PC 0 has moved the PC back one instruction, to the
\* byte address 0xFFFFFFFC.
BackwardWrapped ==
    /\ Len(hist) = 1
    /\ hist[1].op = "+=" /\ hist[1].arg = W(65535, 65532) /\ hist[1].from = Zero
    /\ pc_ = AllOnes /\ realVal(pc_) = W(65535, 65532)

\* C15: after pc = a with a 4-byte-aligned byte address a, realVal() is a and
\* val() is a / 4.
AssignRoundTrip ==
    (Len(hist) = 1 /\ hist[1].op = "=") =>
        /\ realVal(pc_) = hist[1].arg
        /\ val(pc_) = UDiv4(hist[1].arg)

\* C13: after a JALR at byte address P with base value r and I-immediate i the
\* PC's byte address is ((r + i) mod 2^32) with bit 0 cleared, i being the
\* instruction's own sign-extended bits [31:20], and the link value is P + 4.
JalrSemantics ==
    Len(hist) = 1 =>
        LET c == hist[1]
        IN  /\ realVal(pc_) = ClearBit0(Add32(c.r, ExpectImm(c.ins, "I")))
            /\ out = Add32(realVal(c.P), W(0, 4))

\* bit i of the shift the ISA defines, by the low five bits of operand B: SLL
\* moves bit i - shamt of A to bit i and fills with zeros; SRL moves bit
\* i + shamt of A to bit i and fills with zeros; SRA does so and fills with
\* bit 31 of A, which is floor(signed(A) / 2^shamt) modulo 2^32
ExpectShiftBit(a, b, op, i) ==
    LET shamt == b.lo % 32
    IN  CASE op = "SLL" -> IF i >= shamt THEN Bit(a, i - shamt) ELSE 0
          [] op = "SRL" -> IF i + shamt <= 31 THEN Bit(a, i + shamt) ELSE 0
          [] OTHER -> IF i + shamt <= 31 THEN Bit(a, i + shamt) ELSE Bit(a, 31)

ExpectShift(a, b, op) ==
    W(BitsVal([k \in 1..16 |-> ExpectShiftBit(a, b, op, 32 - k)]),
      BitsVal([k \in 1..16 |-> ExpectShiftBit(a, b, op, 16 - k)]))

\* C16: SLL, SRL and SRA shift by the low 5 bits of operand B, whatever its
\* other bits; SRL fills with zeros and SRA gives floor(signed(A) / 2^shamt)
\* modulo 2^32.
ShiftLowFive ==
    (Len(hist) = 1 /\ hist[1].unit = "ALU" /\ hist[1].op \in {"SLL", "SRL", "SRA"}) =>
        out = ExpectShift(hist[1].lhs, hist[1].rhs, hist[1].op)

\* the same for counts below 32
ShiftBelow32 ==
    (/\ Len(hist) = 1 /\ hist[1].unit = "ALU" /\ hist[1].op \in {"SLL", "SRL", "SRA"}
     /\ Count(hist[1].rhs) < 32) =>
        out = ExpectShift(hist[1].lhs, hist[1].rhs, hist[1].op)

\* a + b (sub = FALSE) or a - b (sub = TRUE) modulo 2^32, worked on the four bytes of
\* the two words from the least significant, with the carry or borrow between them
RippleBytes(a, b, sub) ==
    LET d0 == IF sub THEN ByteK(a, 0) - ByteK(b, 0) ELSE ByteK(a, 0) + ByteK(b, 0)
        c0 == IF sub THEN (IF d0 < 0 THEN 1 ELSE 0) ELSE d0 \div 256
        d1 == IF sub THEN ByteK(a, 1) - ByteK(b, 1) - c0 ELSE ByteK(a, 1) + ByteK(b, 1) + c0
        c1 == IF sub THEN (IF d1 < 0 THEN 1 ELSE 0) ELSE d1 \div 256
        d2 == IF sub THEN ByteK(a, 2) - ByteK(b, 2) - c1 ELSE ByteK(a, 2) + ByteK(b, 2) + c1
        c2 == IF sub THEN (IF d2 < 0 THEN 1 ELSE 0) ELSE d2 \div 256
        d3 == IF sub THEN ByteK(a, 3) - ByteK(b, 3) - c2 ELSE ByteK(a, 3) + ByteK(b, 3) + c2
    IN  W((d3 % 256) * 256 + (d2 % 256), (d1 % 256) * 256 + (d0 % 256))

\* C17: ALU ADD returns (a + b) mod 2^32 and SUB returns (a - b) mod 2^32 for
\* all 32-bit a and b, the result fits in 32 bits, and operator+ on bitsets
\* gives what ALU ADD gives.
AddSubModular ==
    (hist[1].unit = "ALU" /\ hist[1].op \in {"ADD", "SUB"}) =>
        LET a == hist[1].lhs
            b == hist[1].rhs
        IN  /\ out = RippleBytes(a, b, hist[1].op = "SUB")
            /\ out.hi \in 0..(W16 - 1) /\ out.lo \in 0..(W16 - 1)
            /\ hist[1].op = "ADD" => out = Add32(a, b)

\* C17 witness: 1 - 0x80000000 was computed, with a < b and a borrow through
\* every byte, and gave 0x80000001.
SubWrapped ==
    /\ hist[1].unit = "ALU" /\ hist[1].op = "SUB"
    /\ hist[1].lhs = One /\ hist[1].rhs = W(32768, 0)
    /\ out = W(32768, 1)

\* the signed value of a 16-bit half
S16(h) == IF h >= 32768 THEN h - W16 ELSE h

\* a < b as two's-complement numbers, and as unsigned numbers
SignedLess(a, b) == S16(a.hi) < S16(b.hi) \/ (a.hi = b.hi /\ a.lo < b.lo)

UnsignedLess(a, b) == a.hi * 2 + (a.lo \div 32768) < b.hi * 2 + (b.lo \div 32768)
                      \/ (a.hi = b.hi /\ a.lo < b.lo)

\* C18: CMP LT/GE compare signed and LTU/GEU unsigned; of EQ/NE, of LT/GE and
\* of LTU/GEU exactly one is true; the ALU's SLT (SLTU) result is 1 when CMP LT
\* (LTU) is true and 0 otherwise.
CompareConsistent ==
    hist[1].unit # "none" =>
        LET a == hist[1].lhs
            b == hist[1].rhs
            R(op) == CMPcalc(a, b, op)
        IN  /\ R("LT") = SignedLess(a, b) /\ R("GE") = ~SignedLess(a, b)
            /\ R("LTU") = UnsignedLess(a, b) /\ R("GEU") = ~UnsignedLess(a, b)
            /\ R("EQ") # R("NE") /\ R("LT") # R("GE") /\ R("LTU") # R("GEU")
            /\ ALUcalc(a, b, "SLT") = (IF R("LT") THEN One ELSE Zero)
            /\ ALUcalc(a, b, "SLTU") = (IF R("LTU") THEN One ELSE Zero)
            /\ hist[1].unit = "CMP" => out = (IF R(hist[1].op) THEN One ELSE Zero)
            /\ (hist[1].unit = "ALU" /\ hist[1].op = "SLT") =>
                   out = (IF SignedLess(a, b) THEN One ELSE Zero)
            /\ (hist[1].unit = "ALU" /\ hist[1].op = "SLTU") =>
                   out = (IF UnsignedLess(a, b) THEN One ELSE Zero)

\* C18 witness: SLT of 0x80000000 and 1 gave 1 (signed less) although
\* 0x80000000 is not less than 1 unsigned.
SignedUnsignedDiffer ==
    /\ hist[1].unit = "ALU" /\ hist[1].op = "SLT"
    /\ hist[1].lhs = W(32768, 0) /\ hist[1].rhs = One
    /\ out = One /\ ~CMPcalc(hist[1].lhs, hist[1].rhs, "LTU")

\* every branch and jump of the program image goes forward
NoBackwardControl ==
    \A i \in 1..Len(imem_) :
        CUFlags(imem_[i]).is_branch \/ CUFlags(imem_[i]).is_jump =>
            imem_[i].imm.hi < 32768 /\ imem_[i].imm # Zero

\* C19: a program without a taken backward branch or jump ends, and ends in
\* one of two ways: an EBREAK completes WB, or the PC reaches the end of IMEM
\* and the instructions in flight drain.
Terminates ==
    NoBackwardControl =>
        /\ [](haltedBy \in {"none", "ebreak", "drained"})
        /\ <>(haltedBy \in {"ebreak", "drained"})

\* every run ends in some way, the abort by std::terminate counted
EndsSomehow == <>(haltedBy # "none")

====
